---------------------------- MODULE Spec2Model ----------------------------
(***************************************************************************)
(* Model of src/hex_fetch.rs (HyzeOS): the CPU / memory / uptime probes,   *)
(* the formatting helpers and HexFetch::fetch, which streams the report    *)
(* through the display writer.                                             *)
(*                                                                         *)
(* Representation.  The model checker's integers are 32-bit signed, so an  *)
(* unsigned 32-bit value (u32) is kept as its two 16-bit halves <<hi, lo>> *)
(* and the u32 arithmetic the code uses is done on the halves.  Text is a  *)
(* sequence of bytes (0..255); colours are the names of the palette.       *)
(***************************************************************************)
EXTENDS Integers, Sequences, FiniteSets, TLC

VARIABLES
    hw,         \* the identification instruction: selector -> <<eax, ebx, ecx, edx>>
    baseMem,    \* the u16 at physical address 0x413
    ticks,      \* the u32 at physical address 0x46C (two halves)
    nIrq,       \* timer interrupts taken so far (bounded by MaxIrq)
    fn,         \* the function being run: "fetch", or a helper called on its own
    arg,        \* the arguments of a helper called on its own
    ret,        \* what a helper called on its own left behind
    pc,         \* position inside the running function
    cpu,        \* fetch: let cpu = CpuInfo::detect()
    memory_kb,  \* fetch: let memory_kb
    memory_mb,  \* fetch: let memory_mb
    tickPart,   \* <<which half, its value>>: the half a load split in two took first
    tickLoads,  \* how many times the call has read the tick counter
    ticksRead,  \* the value get_uptime_seconds loaded
    uptime,     \* fetch: let uptime
    hours,      \* fetch: let hours
    minutes,    \* fetch: let minutes
    seconds,    \* fetch: let seconds
    i,          \* fetch: the swatch loops' i
    writer      \* the display writer: current colours and what was written

vars == <<hw, baseMem, ticks, nIrq, fn, arg, ret, pc, cpu, memory_kb, memory_mb,
          tickPart, tickLoads, ticksRead, uptime, hours, minutes, seconds, i, writer>>

---------------------------------------------------------------------------
(* Unsigned 32-bit arithmetic on halves.                                   *)

Half == 2^16

\* the u32 of a natural number below 2^31
U32(n) == <<n \div Half, n % Half>>

\* the natural number of a u32 below 2^31
Val(x) == x[1] * Half + x[2]

\* a + b on u32: the carry out of the high half is lost
u32_add(a, b) ==
    LET lo == a[2] + b[2]
    IN  <<(a[1] + b[1] + lo \div Half) % Half, lo % Half>>

\* a / d on u32, for a divisor 0 < d < 2^15 (long division by halves)
u32_div(a, d) ==
    <<a[1] \div d, ((a[1] % d) * Half + a[2]) \div d>>

\* a % d on u32, for a divisor 0 < d < 2^15
u32_rem(a, d) ==
    <<0, ((a[1] % d) * Half + a[2]) % d>>

\* a >= b on u32
u32_ge(a, b) ==
    a[1] > b[1] \/ (a[1] = b[1] /\ a[2] >= b[2])

\* u32::to_le_bytes
to_le_bytes(x) ==
    <<x[2] % 256, x[2] \div 256, x[1] % 256, x[1] \div 256>>

\* the u32 whose little-endian bytes are b (used to build register fixtures
\* and to state what a buffer holds)
from_le_bytes(b) ==
    <<b[4] * 256 + b[3], b[2] * 256 + b[1]>>

---------------------------------------------------------------------------
(* The display writer (crate::writer); a colour is the name of a variant   *)
(* of crate::vga_colors::Color.                                            *)

\* set_color(fg, bg): the colours of the writes that follow
set_color(w, fg, bg) ==
    [w EXCEPT !.fg = fg, !.bg = bg]

\* write_byte(b): one cell in the current colours
write_byte(w, b) ==
    [w EXCEPT !.out = Append(@, <<b, w.fg, w.bg>>)]

\* write_str(s): the bytes of s, each in the current colours
write_str(w, s) ==
    [w EXCEPT !.out = @ \o [k \in 1 .. Len(s) |-> <<s[k], w.fg, w.bg>>]]

\* the bytes written, without their colours
Text(w) == [k \in 1 .. Len(w.out) |-> w.out[k][1]]

---------------------------------------------------------------------------
(* String literals of the source, as bytes.                                *)

\* "    __  __          _            "
ART1 ==
    <<32, 32, 32, 32, 95, 95, 32, 32, 95, 95, 32, 32, 32, 32, 32, 32, 32, 32,
      32, 32, 95, 32, 32, 32, 32, 32, 32, 32, 32, 32, 32, 32, 32>>
\* "   / / / /__  _  __(_)_  ______ _"
ART2 ==
    <<32, 32, 32, 47, 32, 47, 32, 47, 32, 47, 95, 95, 32, 32, 95, 32, 32, 95,
      95, 40, 95, 41, 95, 32, 32, 95, 95, 95, 95, 95, 95, 32, 95>>
\* "  / /_/ / _ \\| |/_/ / / / / __ `/"
ART3 ==
    <<32, 32, 47, 32, 47, 95, 47, 32, 47, 32, 95, 32, 92, 124, 32, 124, 47, 95,
      47, 32, 47, 32, 47, 32, 47, 32, 47, 32, 95, 95, 32, 96, 47>>
\* " / __  /  __/>  </ / /_/ / /_/ / "
ART4 ==
    <<32, 47, 32, 95, 95, 32, 32, 47, 32, 32, 95, 95, 47, 62, 32, 32, 60, 47,
      32, 47, 32, 47, 95, 47, 32, 47, 32, 47, 95, 47, 32, 47, 32>>
\* "/_/ /_/\\___/_/|_/_/\\__,_/\\__,_/  "
ART5 ==
    <<47, 95, 47, 32, 47, 95, 47, 92, 95, 95, 95, 47, 95, 47, 124, 95, 47, 95,
      47, 92, 95, 95, 44, 95, 47, 92, 95, 95, 44, 95, 47, 32, 32>>
\* "                                 " (line 6)
ART6 ==
    <<32, 32, 32, 32, 32, 32, 32, 32, 32, 32, 32, 32, 32, 32, 32, 32, 32, 32,
      32, 32, 32, 32, 32, 32, 32, 32, 32, 32, 32, 32, 32, 32, 32>>
\* "                                 " (line 7)
ART7 ==
    <<32, 32, 32, 32, 32, 32, 32, 32, 32, 32, 32, 32, 32, 32, 32, 32, 32, 32,
      32, 32, 32, 32, 32, 32, 32, 32, 32, 32, 32, 32, 32, 32, 32>>

\* "OS: "
S_OS == <<79, 83, 58, 32>>
\* "HyzeOS\n"
S_HyzeOS == <<72, 121, 122, 101, 79, 83, 10>>
\* "Kernel: "
S_Kernel == <<75, 101, 114, 110, 101, 108, 58, 32>>
\* "0.1.0\n"
S_Version == <<48, 46, 49, 46, 48, 10>>
\* "Uptime: "
S_Uptime == <<85, 112, 116, 105, 109, 101, 58, 32>>
\* "\n"
S_NL == <<10>>
\* "Shell: "
S_Shell == <<83, 104, 101, 108, 108, 58, 32>>
\* "HexShell\n"
S_HexShell == <<72, 101, 120, 83, 104, 101, 108, 108, 10>>
\* "CPU: "
S_CPU == <<67, 80, 85, 58, 32>>
\* "Memory: "
S_Memory == <<77, 101, 109, 111, 114, 121, 58, 32>>
\* " MB\n"
S_MB == <<32, 77, 66, 10>>
\* "Arch: "
S_Arch == <<65, 114, 99, 104, 58, 32>>
\* "i386\n"
S_i386 == <<105, 51, 56, 54, 10>>
\* "\n    "
S_NLIndent == <<10, 32, 32, 32, 32>>
\* "  "
S_Swatch == <<32, 32>>
\* "0"
S_Zero == <<48>>
\* "h "
S_h == <<104, 32>>
\* "m "
S_m == <<109, 32>>
\* "s"
S_s == <<115>>
\* "Unknown"
S_Unknown == <<85, 110, 107, 110, 111, 119, 110>>

---------------------------------------------------------------------------
(* CpuInfo and the identification instruction.                             *)

\* cpuid(function): the four registers <<eax, ebx, ecx, edx>> of a selector
cpuid(function) == hw[function]

Zeros(n) == [k \in 1 .. n |-> 0]

\* buf[start .. start + 4].copy_from_slice(bytes), start counted from 0
copy_from_slice(buf, start, bytes) ==
    [k \in 1 .. Len(buf) |->
        IF k - 1 >= start /\ k - 1 < start + Len(bytes) THEN bytes[k - start] ELSE buf[k]]

\* the body of `for i in 0..3` in CpuInfo::detect, from iteration idx on
RECURSIVE detect_brand(_, _)
detect_brand(brand, idx) ==
    IF idx < 3
    THEN LET r      == cpuid(u32_add(<<32768, 2>>, U32(idx)))
             offset == idx * 16
             b1     == copy_from_slice(brand, offset, to_le_bytes(r[1]))
             b2     == copy_from_slice(b1, offset + 4, to_le_bytes(r[2]))
             b3     == copy_from_slice(b2, offset + 8, to_le_bytes(r[3]))
             b4     == copy_from_slice(b3, offset + 12, to_le_bytes(r[4]))
         IN  detect_brand(b4, idx + 1)
    ELSE brand

\* (mutant) the vendor packed in register order ebx, ecx, edx
detect_vendor_register_order ==
    LET r  == cpuid(<<0, 0>>)
        v1 == copy_from_slice(Zeros(12), 0, to_le_bytes(r[2]))
        v2 == copy_from_slice(v1, 4, to_le_bytes(r[3]))
    IN  copy_from_slice(v2, 8, to_le_bytes(r[4]))

\* the vendor bytes CpuInfo::detect packs from cpuid(0)
detect_vendor ==
    LET r  == cpuid(<<0, 0>>)
        v1 == copy_from_slice(Zeros(12), 0, to_le_bytes(r[2]))
        v2 == copy_from_slice(v1, 4, to_le_bytes(r[4]))
    IN  copy_from_slice(v2, 8, to_le_bytes(r[3]))

\* max_ext >= 0x80000004
brand_supported(max_ext) == u32_ge(max_ext, <<32768, 4>>)

\* CpuInfo::detect
detect ==
    LET max_ext == cpuid(<<32768, 0>>)[1]
    IN  IF brand_supported(max_ext)
        THEN [vendor |-> detect_vendor, brand |-> detect_brand(Zeros(48), 0),
              has_brand |-> TRUE]
        ELSE [vendor |-> detect_vendor, brand |-> Zeros(48), has_brand |-> FALSE]

\* core::str::from_utf8(b).is_ok(), from byte k on: well-formed UTF-8 only
RECURSIVE utf8_valid_from(_, _)
utf8_valid_from(b, k) ==
    IF k > Len(b) THEN TRUE
    ELSE LET first == b[k]
             In(j, lo, hi) == j <= Len(b) /\ b[j] >= lo /\ b[j] <= hi
             Cont(j) == In(j, 128, 191)
         IN  IF first < 128 THEN utf8_valid_from(b, k + 1)
             ELSE IF first >= 194 /\ first <= 223
                  THEN Cont(k + 1) /\ utf8_valid_from(b, k + 2)
             ELSE IF first = 224
                  THEN In(k + 1, 160, 191) /\ Cont(k + 2) /\ utf8_valid_from(b, k + 3)
             ELSE IF (first >= 225 /\ first <= 236) \/ first = 238 \/ first = 239
                  THEN Cont(k + 1) /\ Cont(k + 2) /\ utf8_valid_from(b, k + 3)
             ELSE IF first = 237
                  THEN In(k + 1, 128, 159) /\ Cont(k + 2) /\ utf8_valid_from(b, k + 3)
             ELSE IF first = 240
                  THEN In(k + 1, 144, 191) /\ Cont(k + 2) /\ Cont(k + 3)
                       /\ utf8_valid_from(b, k + 4)
             ELSE IF first >= 241 /\ first <= 243
                  THEN Cont(k + 1) /\ Cont(k + 2) /\ Cont(k + 3)
                       /\ utf8_valid_from(b, k + 4)
             ELSE IF first = 244
                  THEN In(k + 1, 128, 143) /\ Cont(k + 2) /\ Cont(k + 3)
                       /\ utf8_valid_from(b, k + 4)
             ELSE FALSE

\* core::str::from_utf8(b).unwrap_or("Unknown")
from_utf8_or_unknown(b) ==
    IF utf8_valid_from(b, 1) THEN b ELSE S_Unknown

\* (mutant) the closure matching spaces only
is_trimmed_space_only(c) == c = 32

\* the closure |c| c == '\0' || c == ' '
is_trimmed(c) == c = 0 \/ c = 32

RECURSIVE trim_start(_)
trim_start(s) ==
    IF s # <<>> /\ is_trimmed(Head(s)) THEN trim_start(Tail(s)) ELSE s

RECURSIVE trim_end(_)
trim_end(s) ==
    IF s # <<>> /\ is_trimmed(s[Len(s)]) THEN trim_end(SubSeq(s, 1, Len(s) - 1)) ELSE s

\* s.trim_matches(|c| c == '\0' || c == ' ')
trim_matches(s) == trim_end(trim_start(s))

\* CpuInfo::vendor_str
vendor_str(info) == from_utf8_or_unknown(info.vendor)

\* CpuInfo::brand_str
brand_str(info) ==
    IF info.has_brand
    THEN trim_matches(from_utf8_or_unknown(info.brand))
    ELSE vendor_str(info)

---------------------------------------------------------------------------
(* The memory and uptime probes, as functions of the value they load.      *)

\* let extended_kb: u32 = 128 * 1024
extended_kb == U32(128 * 1024)

\* 0x413, the address detect_memory_kb loads its u16 from
BaseMemAddr == 1043

\* align_of::<u16>()
U16Align == 2

\* detect_memory_kb, base_mem being the u16 at 0x413.  The address is odd, so
\* the load *(0x413 as *const u16) is misaligned, which the language leaves
\* undefined.  A build that checks pointer alignment (debug assertions on)
\* stops at the load with the non-unwinding panic "misaligned pointer
\* dereference" and nothing is returned; a build that does not check loads
\* the word and returns it plus extended_kb.
detect_memory_kb(base_mem, checked) ==
    IF checked /\ BaseMemAddr % U16Align # 0
    THEN [panic |-> TRUE, value |-> <<0, 0>>]
    ELSE [panic |-> FALSE, value |-> u32_add(<<0, base_mem>>, extended_kb)]

TicksPerSecond == 18

\* get_uptime_seconds, t being the u32 loaded from 0x46C
get_uptime_seconds(t) ==
    u32_div(t, TicksPerSecond)

---------------------------------------------------------------------------
(* Formatting helpers.                                                     *)

\* (mutant) the loop as `for i in 0..=max_len`: one byte too many
RECURSIVE write_truncated_loop_inclusive(_, _, _, _)
write_truncated_loop_inclusive(w, bytes, idx, max_len) ==
    IF idx <= max_len
    THEN write_truncated_loop_inclusive(write_byte(w, bytes[idx + 1]), bytes, idx + 1,
                                        max_len)
    ELSE w

\* the loop `for i in 0..max_len` of write_truncated, from iteration idx on
RECURSIVE write_truncated_loop(_, _, _, _)
write_truncated_loop(w, bytes, idx, max_len) ==
    IF idx < max_len
    THEN write_truncated_loop(write_byte(w, bytes[idx + 1]), bytes, idx + 1, max_len)
    ELSE w

\* write_truncated
write_truncated(w, s, max_len) ==
    IF Len(s) <= max_len
    THEN write_str(w, s)
    ELSE write_truncated_loop(w, s, 0, max_len)

\* let mut buf = [0u8; 10]
BufLen == 10

\* b'0' + (n % 10) as u8
digit_byte(n) == 48 + u32_rem(n, 10)[2]

\* the loop `while n > 0` of write_number: the locals when it ends; storing
\* past the end of buf panics
RECURSIVE write_number_fill(_, _, _)
write_number_fill(n, buf, idx) ==
    IF n # <<0, 0>>
    THEN IF idx >= BufLen
         THEN [buf |-> buf, i |-> idx, panic |-> TRUE]
         ELSE write_number_fill(u32_div(n, 10),
                                [buf EXCEPT ![idx + 1] = digit_byte(n)], idx + 1)
    ELSE [buf |-> buf, i |-> idx, panic |-> FALSE]

\* (mutant) the buffer written from its first entry on: least significant
\* digit first
RECURSIVE write_number_emit_forward(_, _, _)
write_number_emit_forward(w, buf, idx) ==
    IF idx > 0
    THEN write_byte(write_number_emit_forward(w, buf, idx - 1), buf[Len(buf) + 1 - idx])
    ELSE w

\* the loop `while i > 0` of write_number
RECURSIVE write_number_emit(_, _, _)
write_number_emit(w, buf, idx) ==
    IF idx > 0
    THEN write_number_emit(write_byte(w, buf[idx]), buf, idx - 1)
    ELSE w

\* the locals of write_number when its first loop ends (none are made for 0)
write_number_locals(n) ==
    IF n = <<0, 0>>
    THEN [buf |-> Zeros(BufLen), i |-> 0, panic |-> FALSE]
    ELSE write_number_fill(n, Zeros(BufLen), 0)

\* write_number
write_number(w, n) ==
    IF n = <<0, 0>>
    THEN write_str(w, S_Zero)
    ELSE LET l == write_number_locals(n)
         IN  IF l.panic THEN w ELSE write_number_emit(w, l.buf, l.i)

\* (mutant) the minutes left out when they are zero, like the hours
write_uptime_skip_zero(w, h, m, s) ==
    LET w1 == IF h # <<0, 0>> THEN write_str(write_number(w, h), S_h) ELSE w
        w2 == IF m # <<0, 0>> THEN write_str(write_number(w1, m), S_m) ELSE w1
    IN  write_str(write_number(w2, s), S_s)

\* write_uptime
write_uptime(w, h, m, s) ==
    LET w1 == IF h # <<0, 0>> THEN write_str(write_number(w, h), S_h) ELSE w
        w2 == write_str(write_number(w1, m), S_m)
    IN  write_str(write_number(w2, s), S_s)

---------------------------------------------------------------------------
(* Hardware the calls are checked on: what the identification instruction  *)
(* returns, the low-memory word and the tick counter.                       *)

\* "GenuineIntel"
V_GenuineIntel ==
    <<71, 101, 110, 117, 105, 110, 101, 73, 110, 116, 101, 108>>
\* "AuthenticAMD"
V_AuthenticAMD ==
    <<65, 117, 116, 104, 101, 110, 116, 105, 99, 65, 77, 68>>
\* bytes FF FE "GenuineInt": not UTF-8
V_NotText ==
    <<255, 254, 71, 101, 110, 117, 105, 110, 101, 73, 110, 116>>
\* "  Shanghai  ": text with spaces at both ends
V_Shanghai ==
    <<32, 32, 83, 104, 97, 110, 103, 104, 97, 105, 32, 32>>
\* twelve NUL bytes
V_Zero ==
    <<0, 0, 0, 0, 0, 0, 0, 0, 0, 0, 0, 0>>
\* "Intel(R) Core(TM) i7-8700K CPU @ 3.70GHz" (40 bytes)
B_Core ==
    <<73, 110, 116, 101, 108, 40, 82, 41, 32, 67, 111, 114, 101, 40, 84, 77, 41, 32,
      105, 55, 45, 56, 55, 48, 48, 75, 32, 67, 80, 85, 32, 64, 32, 51, 46, 55,
      48, 71, 72, 122>>
\* 14 spaces, then "Intel(R) Pentium(R) 4 CPU 2.40GHz" (47 bytes)
B_Pentium ==
    <<32, 32, 32, 32, 32, 32, 32, 32, 32, 32, 32, 32, 32, 32, 73, 110, 116, 101,
      108, 40, 82, 41, 32, 80, 101, 110, 116, 105, 117, 109, 40, 82, 41, 32, 52, 32,
      67, 80, 85, 32, 50, 46, 52, 48, 71, 72, 122>>
\* "AMD Athlon(tm) Processor" (24 bytes)
B_Athlon ==
    <<65, 77, 68, 32, 65, 116, 104, 108, 111, 110, 40, 116, 109, 41, 32, 80, 114, 111,
      99, 101, 115, 115, 111, 114>>
\* "QEMU Virtual CPU version2" (25 bytes)
B_Len25 ==
    <<81, 69, 77, 85, 32, 86, 105, 114, 116, 117, 97, 108, 32, 67, 80, 85, 32, 118,
      101, 114, 115, 105, 111, 110, 50>>
\* "QEMU Virtual CPU version 2" (26 bytes)
B_Len26 ==
    <<81, 69, 77, 85, 32, 86, 105, 114, 116, 117, 97, 108, 32, 67, 80, 85, 32, 118,
      101, 114, 115, 105, 111, 110, 32, 50>>
\* "Intel(R) Core(TM)", C3 28, " CPU": not UTF-8
B_NotText ==
    <<73, 110, 116, 101, 108, 40, 82, 41, 32, 67, 111, 114, 101, 40, 84, 77, 41, 195,
      40, 32, 67, 80, 85>>
\* "VIA Nano processor U2250", C3 A9 (e acute), "@1.6GHz": bytes 25, 26 are one character
B_TwoByteChar ==
    <<86, 73, 65, 32, 78, 97, 110, 111, 32, 112, 114, 111, 99, 101, 115, 115, 111, 114,
      32, 85, 50, 50, 53, 48, 195, 169, 64, 49, 46, 54, 71, 72, 122>>

Pad(s, n) == s \o Zeros(n - Len(s))

\* the four registers whose little-endian bytes are the 16 bytes b
Regs(b) ==
    <<from_le_bytes(SubSeq(b, 1, 4)), from_le_bytes(SubSeq(b, 5, 8)),
      from_le_bytes(SubSeq(b, 9, 12)), from_le_bytes(SubSeq(b, 13, 16))>>

SelBasic  == <<0, 0>>          \* 0
SelExt    == <<32768, 0>>      \* 0x80000000
SelBrand0 == <<32768, 2>>      \* 0x80000002
SelBrand1 == <<32768, 3>>      \* 0x80000003
SelBrand2 == <<32768, 4>>      \* 0x80000004

\* a processor: the vendor text in ebx, edx, ecx of selector 0, the highest
\* extended selector in eax of 0x80000000, the brand text in the registers of
\* 0x80000002 .. 0x80000004
Machine(vendor, max_ext, brand) ==
    LET b == Pad(brand, 48)
    IN  (SelBasic :> <<<<0, 13>>, from_le_bytes(SubSeq(vendor, 1, 4)),
                       from_le_bytes(SubSeq(vendor, 9, 12)),
                       from_le_bytes(SubSeq(vendor, 5, 8))>>)
        @@ (SelExt :> <<max_ext, <<0, 0>>, <<0, 0>>, <<0, 0>>>>)
        @@ (SelBrand0 :> Regs(SubSeq(b, 1, 16)))
        @@ (SelBrand1 :> Regs(SubSeq(b, 17, 32)))
        @@ (SelBrand2 :> Regs(SubSeq(b, 33, 48)))

Machines ==
    { Machine(V_Shanghai, <<0, 13>>, B_Core),             \* no extended selectors
      Machine(V_GenuineIntel, <<32768, 3>>, B_Core),      \* 0x80000003: one short
      Machine(V_AuthenticAMD, <<32768, 4>>, B_Athlon),    \* 0x80000004 exactly
      Machine(V_GenuineIntel, <<32768, 8>>, B_Core),
      Machine(V_GenuineIntel, <<32768, 8>>, B_Pentium),
      Machine(V_GenuineIntel, <<32768, 8>>, B_Len25),
      Machine(V_GenuineIntel, <<65535, 65535>>, B_Len26),
      Machine(V_GenuineIntel, <<32768, 8>>, B_TwoByteChar),
      Machine(V_AuthenticAMD, <<32768, 8>>, B_NotText),
      Machine(V_NotText, <<0, 0>>, B_Athlon),
      Machine(V_Zero, <<32768, 4>>, <<>>) }

\* values of the u16 at 0x413
BaseMemInputs == {0, 2048, 65535}

\* values of the u32 at 0x46C: 17, 1800, 64799, 65535, 4294967295
TickInputs == {<<0, 17>>, <<0, 1800>>, <<0, 64799>>, <<0, 65535>>, <<65535, 65535>>}

\* how many timer interrupts a behaviour takes at most
MaxIrq == 1

NoCpu == [vendor |-> Zeros(12), brand |-> Zeros(48), has_brand |-> FALSE]

NoLocals == [buf |-> Zeros(BufLen), i |-> 0, panic |-> FALSE]

---------------------------------------------------------------------------
(* HexFetch::fetch, one action per statement group, and the timer          *)
(* interrupt that increments the tick counter while it runs.               *)

hardware == <<hw, baseMem>>
harness  == <<fn, arg, ret>>
probes   == <<cpu, memory_kb, memory_mb>>
load     == <<tickPart, tickLoads, ticksRead>>
clock    == <<uptime, hours, minutes, seconds>>

\* the colours the writer holds when fetch is called
WriterBefore == [fg |-> "LightGray", bg |-> "Blue", out |-> <<>>]

Init ==
    /\ hw \in Machines
    /\ baseMem \in BaseMemInputs
    /\ ticks \in TickInputs
    /\ nIrq = 0
    /\ fn = "fetch" /\ arg = <<>> /\ ret = NoLocals
    /\ pc = "detect"
    /\ cpu = NoCpu
    /\ memory_kb = <<0, 0>> /\ memory_mb = <<0, 0>>
    /\ tickPart = <<0, 0>> /\ tickLoads = 0 /\ ticksRead = <<0, 0>>
    /\ uptime = <<0, 0>> /\ hours = <<0, 0>> /\ minutes = <<0, 0>> /\ seconds = <<0, 0>>
    /\ i = 0
    /\ writer = WriterBefore

\* the periodic timer interrupt: the tick counter goes up by one (mod 2^32)
TimerIrq ==
    /\ fn = "fetch" /\ pc \notin {"done", "abort"}
    /\ nIrq < MaxIrq
    /\ ticks' = u32_add(ticks, <<0, 1>>)
    /\ nIrq' = nIrq + 1
    /\ UNCHANGED <<hardware, harness, pc, probes, load, clock, i, writer>>

\* let cpu = CpuInfo::detect();
FetchDetect ==
    /\ fn = "fetch" /\ pc = "detect"
    /\ cpu' = detect
    /\ pc' = "memory"
    /\ UNCHANGED <<hardware, ticks, nIrq, harness, memory_kb, memory_mb, load, clock,
                   i, writer>>

\* let memory_mb = memory_kb / 1024
memory_mb_of(kb) == u32_div(kb, 1024)

\* let memory_kb = detect_memory_kb(); let memory_mb = memory_kb / 1024;
\* in a build whose load of 0x413 yields the word
FetchMemory ==
    /\ fn = "fetch" /\ pc = "memory"
    /\ LET r == detect_memory_kb(baseMem, FALSE)
       IN  /\ ~r.panic
           /\ memory_kb' = r.value
           /\ memory_mb' = memory_mb_of(r.value)
    /\ pc' = "uptime"
    /\ UNCHANGED <<hardware, ticks, nIrq, harness, cpu, load, clock, i, writer>>

\* let memory_kb = detect_memory_kb(); in a build that checks the alignment
\* of the load of 0x413: the panic does not unwind, so fetch stops here,
\* having written nothing, and never returns
FetchMemoryFault ==
    /\ fn = "fetch" /\ pc = "memory"
    /\ detect_memory_kb(baseMem, TRUE).panic
    /\ pc' = "abort"
    /\ UNCHANGED <<hardware, ticks, nIrq, harness, probes, load, clock, i, writer>>

\* let uptime = get_uptime_seconds();  the load of 0x46C done as one access
FetchUptime ==
    /\ fn = "fetch" /\ pc = "uptime"
    /\ ticksRead' = ticks
    /\ tickLoads' = tickLoads + 1
    /\ uptime' = get_uptime_seconds(ticks)
    /\ pc' = "derive"
    /\ UNCHANGED <<hardware, ticks, nIrq, harness, probes, tickPart, hours, minutes,
                   seconds, i, writer>>

\* the same load done as two 16-bit accesses (it is not synchronised with the
\* interrupt): the first half, either one
FetchUptimeFirstHalf ==
    /\ fn = "fetch" /\ pc = "uptime"
    /\ \E h \in {1, 2} : tickPart' = <<h, ticks[h]>>
    /\ tickLoads' = tickLoads + 1
    /\ pc' = "uptime2"
    /\ UNCHANGED <<hardware, ticks, nIrq, harness, probes, ticksRead, clock, i, writer>>

\* the other half, and ticks / 18 of the two halves put together
FetchUptimeSecondHalf ==
    /\ fn = "fetch" /\ pc = "uptime2"
    /\ LET t == IF tickPart[1] = 1 THEN <<tickPart[2], ticks[2]>>
                                   ELSE <<ticks[1], tickPart[2]>>
       IN  /\ ticksRead' = t
           /\ uptime' = get_uptime_seconds(t)
    /\ pc' = "derive"
    /\ UNCHANGED <<hardware, ticks, nIrq, harness, probes, tickPart, tickLoads, hours,
                   minutes, seconds, i, writer>>

\* let hours = uptime / 3600
hours_of(u) == u32_div(u, 3600)
\* let minutes = (uptime % 3600) / 60
minutes_of(u) == u32_div(u32_rem(u, 3600), 60)
\* (mutant) the seconds taken from a second load of the tick counter
seconds_of_reload(u) == u32_rem(get_uptime_seconds(ticks), 60)
\* let seconds = uptime % 60
seconds_of(u) == u32_rem(u, 60)

FetchDerive ==
    /\ fn = "fetch" /\ pc = "derive"
    /\ hours' = hours_of(uptime)
    /\ minutes' = minutes_of(uptime)
    /\ seconds' = seconds_of(uptime)
    /\ pc' = "line1"
    /\ UNCHANGED <<hardware, ticks, nIrq, harness, probes, load, uptime, i, writer>>

\* what the lines leave alone
LineFrame == UNCHANGED <<hardware, ticks, nIrq, harness, probes, load, clock, i>>

\* the art fragment and the label of a line, each after its set_color
line_head(w, art, label) ==
    LET w1 == write_str(set_color(w, "LightCyan", "Black"), art)
        w2 == write_str(set_color(w1, "Yellow", "Black"), label)
    IN  set_color(w2, "White", "Black")

\* // Line 1
FetchLine1 ==
    /\ fn = "fetch" /\ pc = "line1"
    /\ writer' = write_str(line_head(writer, ART1, S_OS), S_HyzeOS)
    /\ pc' = "line2"
    /\ LineFrame

\* // Line 2
FetchLine2 ==
    /\ fn = "fetch" /\ pc = "line2"
    /\ writer' = write_str(line_head(writer, ART2, S_Kernel), S_Version)
    /\ pc' = "line3"
    /\ LineFrame

\* // Line 3
FetchLine3 ==
    /\ fn = "fetch" /\ pc = "line3"
    /\ writer' = write_str(write_uptime(line_head(writer, ART3, S_Uptime),
                                        hours, minutes, seconds), S_NL)
    /\ pc' = "line4"
    /\ LineFrame

\* // Line 4
FetchLine4 ==
    /\ fn = "fetch" /\ pc = "line4"
    /\ writer' = write_str(line_head(writer, ART4, S_Shell), S_HexShell)
    /\ pc' = "line5"
    /\ LineFrame

\* write_truncated(writer, cpu.brand_str(), 25)
CpuMaxLen == 25

\* // Line 5
FetchLine5 ==
    /\ fn = "fetch" /\ pc = "line5"
    /\ writer' = write_str(write_truncated(line_head(writer, ART5, S_CPU),
                                           brand_str(cpu), CpuMaxLen), S_NL)
    /\ pc' = "line6"
    /\ LineFrame

\* // Line 6 - Memory
FetchLine6 ==
    /\ fn = "fetch" /\ pc = "line6"
    /\ writer' = write_str(write_number(line_head(writer, ART6, S_Memory), memory_mb),
                           S_MB)
    /\ pc' = "line7"
    /\ LineFrame

\* "                              ": 30 blanks
ART7_30 == SubSeq(ART7, 1, 30)

\* (mutant) line 7 padded to the 30 columns the comment speaks of
FetchLine7_30 ==
    /\ fn = "fetch" /\ pc = "line7"
    /\ writer' = write_str(line_head(writer, ART7_30, S_Arch), S_i386)
    /\ pc' = "palette"
    /\ LineFrame

\* // Line 7 - Arch
FetchLine7 ==
    /\ fn = "fetch" /\ pc = "line7"
    /\ writer' = write_str(line_head(writer, ART7, S_Arch), S_i386)
    /\ pc' = "palette"
    /\ LineFrame

\* // Color palette display: writer.write_str("\n    ")
FetchPalette ==
    /\ fn = "fetch" /\ pc = "palette"
    /\ writer' = write_str(writer, S_NLIndent)
    /\ i' = 0
    /\ pc' = "row1"
    /\ UNCHANGED <<hardware, ticks, nIrq, harness, probes, load, clock>>

\* the match of the first loop
row1_color(k) ==
    CASE k = 0 -> "Black"
      [] k = 1 -> "Red"
      [] k = 2 -> "Green"
      [] k = 3 -> "Brown"
      [] k = 4 -> "Blue"
      [] k = 5 -> "Magenta"
      [] k = 6 -> "Cyan"
      [] k = 7 -> "LightGray"
      [] OTHER -> "Black"

\* the match of the second loop
row2_color(k) ==
    CASE k = 0 -> "DarkGray"
      [] k = 1 -> "LightRed"
      [] k = 2 -> "LightGreen"
      [] k = 3 -> "Yellow"
      [] k = 4 -> "LightBlue"
      [] k = 5 -> "Pink"
      [] k = 6 -> "LightCyan"
      [] k = 7 -> "White"
      [] OTHER -> "Black"

\* writer.set_color(color, color); writer.write_str("  ");
swatch(w, color) == write_str(set_color(w, color, color), S_Swatch)

\* one iteration of the first `for i in 0..8`
FetchRow1Swatch ==
    /\ fn = "fetch" /\ pc = "row1" /\ i < 8
    /\ writer' = swatch(writer, row1_color(i))
    /\ i' = i + 1
    /\ UNCHANGED <<hardware, ticks, nIrq, harness, pc, probes, load, clock>>

\* after the first loop: set_color(White, Black); write_str("\n    ")
FetchRow1End ==
    /\ fn = "fetch" /\ pc = "row1" /\ i = 8
    /\ writer' = write_str(set_color(writer, "White", "Black"), S_NLIndent)
    /\ i' = 0
    /\ pc' = "row2"
    /\ UNCHANGED <<hardware, ticks, nIrq, harness, probes, load, clock>>

\* one iteration of the second `for i in 0..8`
FetchRow2Swatch ==
    /\ fn = "fetch" /\ pc = "row2" /\ i < 8
    /\ writer' = swatch(writer, row2_color(i))
    /\ i' = i + 1
    /\ UNCHANGED <<hardware, ticks, nIrq, harness, pc, probes, load, clock>>

\* after the second loop: set_color(White, Black); write_str("\n"); return
FetchRow2End ==
    /\ fn = "fetch" /\ pc = "row2" /\ i = 8
    /\ writer' = write_str(set_color(writer, "White", "Black"), S_NL)
    /\ pc' = "done"
    /\ UNCHANGED <<hardware, ticks, nIrq, harness, probes, load, clock, i>>

Next ==
    \/ TimerIrq
    \/ FetchDetect
    \/ FetchMemory
    \/ FetchMemoryFault
    \/ FetchUptime
    \/ FetchUptimeFirstHalf
    \/ FetchUptimeSecondHalf
    \/ FetchDerive
    \/ FetchLine1
    \/ FetchLine2
    \/ FetchLine3
    \/ FetchLine4
    \/ FetchLine5
    \/ FetchLine6
    \/ FetchLine7
    \/ FetchPalette
    \/ FetchRow1Swatch
    \/ FetchRow1End
    \/ FetchRow2Swatch
    \/ FetchRow2End

Spec == Init /\ [][Next]_vars

---------------------------------------------------------------------------
(* The formatting helpers called on their own, on inputs beyond those      *)
(* fetch passes them.                                                      *)

\* arguments of write_number
NumberInputs ==
    {
      <<0, 0>>,             \* 0
      <<0, 1>>,             \* 1
      <<0, 9>>,             \* 9
      <<0, 10>>,            \* 10
      <<0, 99>>,            \* 99
      <<0, 100>>,           \* 100
      <<0, 191>>,           \* 191
      <<0, 1000>>,          \* 1000
      <<0, 65535>>,         \* 65535
      <<1, 0>>,             \* 65536
      <<1, 744>>,           \* 66280
      <<15258, 51711>>,     \* 999999999
      <<15258, 51712>>,     \* 1000000000
      <<18838, 722>>,       \* 1234567890
      <<32767, 65535>>,     \* 2147483647
      <<32768, 0>>,         \* 2147483648
      <<61035, 10240>>,     \* 4000000000
      <<65535, 65530>>,     \* 4294967290
      <<65535, 65535>>      \* 4294967295
    }

\* arguments of write_uptime
UptimeInputs ==
    {<<U32(h), U32(m), U32(s)>> : h \in {0, 1, 2, 10, 66280}, m \in {0, 5, 9, 59, 100},
                                  s \in {0, 9, 40, 59}}

\* "abc"
T_abc == <<97, 98, 99>>
\* "abcdefgh"
T_abcdefgh == <<97, 98, 99, 100, 101, 102, 103, 104>>

\* arguments of write_truncated
TruncatedInputs ==
    {<<<<>>, T_abc, T_abcdefgh, B_Len25, B_Len26, B_TwoByteChar, B_Core>>[k] : k \in 1 .. 7}
        \X {0, 1, 3, 5, 8, 25, 26}

HelperCalls ==
    {<<"write_number", <<n>>>> : n \in NumberInputs}
        \cup {<<"write_uptime", a>> : a \in UptimeInputs}
        \cup {<<"write_truncated", a>> : a \in TruncatedInputs}

InitHelpers ==
    /\ hw = Machine(V_GenuineIntel, <<0, 13>>, B_Core)
    /\ baseMem = 0
    /\ ticks = <<0, 0>>
    /\ nIrq = 0
    /\ \E c \in HelperCalls : fn = c[1] /\ arg = c[2]
    /\ ret = NoLocals
    /\ pc = "call"
    /\ cpu = NoCpu
    /\ memory_kb = <<0, 0>> /\ memory_mb = <<0, 0>>
    /\ tickPart = <<0, 0>> /\ tickLoads = 0 /\ ticksRead = <<0, 0>>
    /\ uptime = <<0, 0>> /\ hours = <<0, 0>> /\ minutes = <<0, 0>> /\ seconds = <<0, 0>>
    /\ i = 0
    /\ writer = WriterBefore

HelperFrame ==
    UNCHANGED <<hardware, ticks, nIrq, fn, arg, probes, load, clock, i>>

CallWriteNumber ==
    /\ fn = "write_number" /\ pc = "call"
    /\ writer' = write_number(writer, arg[1])
    /\ ret' = write_number_locals(arg[1])
    /\ pc' = "ret"
    /\ HelperFrame

CallWriteUptime ==
    /\ fn = "write_uptime" /\ pc = "call"
    /\ writer' = write_uptime(writer, arg[1], arg[2], arg[3])
    /\ pc' = "ret"
    /\ UNCHANGED ret
    /\ HelperFrame

CallWriteTruncated ==
    /\ fn = "write_truncated" /\ pc = "call"
    /\ writer' = write_truncated(writer, arg[1], arg[2])
    /\ pc' = "ret"
    /\ UNCHANGED ret
    /\ HelperFrame

NextHelpers ==
    \/ CallWriteNumber
    \/ CallWriteUptime
    \/ CallWriteTruncated

SpecHelpers == InitHelpers /\ [][NextHelpers]_vars

---------------------------------------------------------------------------
(* Reference notions the properties are stated with.                       *)

\* the positions of a call of fetch that goes on to its return, in order
PcOrder ==
    <<"detect", "memory", "uptime", "uptime2", "derive", "line1", "line2", "line3",
      "line4", "line5", "line6", "line7", "palette", "row1", "row2", "done">>

Rank(p) == CHOOSE k \in 1 .. Len(PcOrder) : PcOrder[k] = p

\* fetch has stopped at the load of 0x413
Aborted == fn = "fetch" /\ pc = "abort"

\* fetch is running, or has returned, and has gone past position p
Past(p) == fn = "fetch" /\ pc # "abort" /\ Rank(pc) > Rank(p)

\* the call of fetch is over: it has returned or it has stopped
Ended == fn = "fetch" /\ pc \in {"done", "abort"}

Min(a, b) == IF a <= b THEN a ELSE b

\* the decimal numeral of a natural number, most significant digit first
RECURSIVE Decimal(_)
Decimal(n) ==
    IF n < 10 THEN <<48 + n>> ELSE Decimal(n \div 10) \o <<48 + (n % 10)>>

\* the number a sequence of digit bytes denotes, as unnormalised halves
\* <<hi, lo>> with lo < 2^16 (hi may exceed 16 bits for a numeral that
\* does not fit a u32)
RECURSIVE DigitsValue(_)
DigitsValue(d) ==
    IF d = <<>> THEN <<0, 0>>
    ELSE LET upper == DigitsValue(SubSeq(d, 1, Len(d) - 1))
             lo    == upper[2] * 10 + (d[Len(d)] - 48)
         IN  <<upper[1] * 10 + lo \div Half, lo % Half>>

\* the bytes s as cells of colour pair c = <<fg, bg>>
Cells(s, c) == [k \in 1 .. Len(s) |-> <<s[k], c[1], c[2]>>]

\* the well-formed UTF-8 byte sequences of one character, as byte ranges
\* (Unicode, table 3-7)
Utf8Forms ==
    { << <<0, 127>> >>,
      << <<194, 223>>, <<128, 191>> >>,
      << <<224, 224>>, <<160, 191>>, <<128, 191>> >>,
      << <<225, 236>>, <<128, 191>>, <<128, 191>> >>,
      << <<237, 237>>, <<128, 159>>, <<128, 191>> >>,
      << <<238, 239>>, <<128, 191>>, <<128, 191>> >>,
      << <<240, 240>>, <<144, 191>>, <<128, 191>>, <<128, 191>> >>,
      << <<241, 243>>, <<128, 191>>, <<128, 191>>, <<128, 191>> >>,
      << <<244, 244>>, <<128, 143>>, <<128, 191>>, <<128, 191>> >> }

\* b, from byte k on, is a concatenation of well-formed characters
RECURSIVE IsTextFrom(_, _)
IsTextFrom(b, k) ==
    \/ k > Len(b)
    \/ \E f \in Utf8Forms :
          /\ k + Len(f) - 1 <= Len(b)
          /\ \A j \in 1 .. Len(f) : b[k + j - 1] >= f[j][1] /\ b[k + j - 1] <= f[j][2]
          /\ IsTextFrom(b, k + Len(f))

IsText(b) == IsTextFrom(b, 1)

\* b without its leading and trailing NUL bytes and spaces
Trimmed(b) ==
    LET keep == {k \in 1 .. Len(b) : b[k] # 0 /\ b[k] # 32}
    IN  IF keep = {} THEN <<>>
        ELSE SubSeq(b, CHOOSE k \in keep : \A j \in keep : k <= j,
                       CHOOSE k \in keep : \A j \in keep : k >= j)

---------------------------------------------------------------------------
(* C1: the seven report lines.                                             *)

\* the labels and the fixed values the report is to show
C1_Labels ==
    << <<79, 83, 58, 32>>,
       <<75, 101, 114, 110, 101, 108, 58, 32>>,
       <<85, 112, 116, 105, 109, 101, 58, 32>>,
       <<83, 104, 101, 108, 108, 58, 32>>,
       <<67, 80, 85, 58, 32>>,
       <<77, 101, 109, 111, 114, 121, 58, 32>>,
       <<65, 114, 99, 104, 58, 32>> >>

C1_HyzeOS   == <<72, 121, 122, 101, 79, 83>>
C1_Version  == <<48, 46, 49, 46, 48>>
C1_HexShell == <<72, 101, 120, 83, 104, 101, 108, 108>>
C1_i386     == <<105, 51, 56, 54>>

\* the duration of u seconds: hours only when there are any
C1_Duration(u) ==
    (IF u \div 3600 > 0 THEN Decimal(u \div 3600) \o <<104, 32>> ELSE <<>>)
        \o Decimal((u % 3600) \div 60) \o <<109, 32>> \o Decimal(u % 60) \o <<115>>

C1_Value(k) ==
    CASE k = 1 -> C1_HyzeOS
      [] k = 2 -> C1_Version
      [] k = 3 -> C1_Duration(Val(uptime))
      [] k = 4 -> C1_HexShell
      [] k = 5 -> SubSeq(brand_str(cpu), 1, Min(Len(brand_str(cpu)), 25))
      [] k = 6 -> Decimal((baseMem + 131072) \div 1024) \o <<32, 77, 66>>
      [] k = 7 -> C1_i386

C1_Art == <<ART1, ART2, ART3, ART4, ART5, ART6, ART7>>

\* the first n report lines, the art in colours ca, the label in cl, the
\* value and the line break in cv
RECURSIVE C1_Report(_, _, _, _)
C1_Report(n, ca, cl, cv) ==
    IF n = 0 THEN <<>>
    ELSE C1_Report(n - 1, ca, cl, cv)
            \o Cells(C1_Art[n], ca) \o Cells(C1_Labels[n], cl)
            \o Cells(C1_Value(n) \o <<10>>, cv)

\* how many report lines fetch has written
LinesDone ==
    IF pc = "abort" \/ Rank(pc) <= Rank("line1") THEN 0
    ELSE IF Rank(pc) >= Rank("palette") THEN 7
    ELSE Rank(pc) - Rank("line1")

\* What fetch has written starts with the report lines done so far (all
\* seven once it reaches the palette, and nothing else before it): each line
\* is its art fragment, its label and its value followed by one line break,
\* in the order OS, Kernel, Uptime, Shell, CPU, Memory, Arch, the fragment in
\* one colour, the label in a second and the value in a third, the same
\* three on every line.
C1_LinesWritten ==
    (fn = "fetch" /\ LinesDone >= 1) =>
        LET out == writer.out
            a   == Len(ART1) + 1
            v   == a + Len(C1_Labels[1])
        IN  /\ Len(out) >= v
            /\ LET ca  == <<out[1][2], out[1][3]>>
                   cl  == <<out[a][2], out[a][3]>>
                   cv  == <<out[v][2], out[v][3]>>
                   rep == C1_Report(LinesDone, ca, cl, cv)
               IN  /\ ca # cl /\ cl # cv /\ ca # cv
                   /\ Len(out) >= Len(rep)
                   /\ SubSeq(out, 1, Len(rep)) = rep
                   /\ (Rank(pc) <= Rank("palette") => Len(out) = Len(rep))

\* a call that has written all seven lines, with hours to show and a brand
\* string longer than the 25 bytes shown
C1_SevenWritten ==
    /\ fn = "fetch" /\ pc = "done"
    /\ hours # <<0, 0>>
    /\ cpu.has_brand /\ Len(brand_str(cpu)) > 25

\* C1: for every hardware state one call of fetch emits exactly seven report
\* lines: a call that is over has written all seven, and what it has written
\* is at every moment the lines done so far, each its art fragment, its
\* label and its value followed by one line break, in the order OS, Kernel,
\* Uptime, Shell, CPU, Memory, Arch, in three colours that are the same on
\* every line.  A call that stops at the load of 0x413 is over with no line
\* written.
C1_SevenLines ==
    /\ Ended => LinesDone = 7
    /\ C1_LinesWritten

---------------------------------------------------------------------------
(* C2: the palette rows.                                                   *)

\* the cells fetch writes after the report: a line break and four blanks,
\* 8 swatches of 2 cells, a line break and four blanks, 8 swatches, a line
\* break
C2_TailLen == 5 + 16 + 5 + 16 + 1

C2_Tail == SubSeq(writer.out, Len(writer.out) - C2_TailLen + 1, Len(writer.out))

\* the two cells of swatch k (1..8) of row r (1, 2)
C2_Swatch(r, k) ==
    LET first == (IF r = 1 THEN 5 ELSE 26) + 2 * k - 1
    IN  <<C2_Tail[first], C2_Tail[first + 1]>>

C2_RowColors(r) == {C2_Swatch(r, k)[1][2] : k \in 1 .. 8}

C2_Default == <<10, "White", "Black">>

\* the 8 base colours and the 8 bright ones
C2_BaseColors ==
    {"Black", "Blue", "Green", "Cyan", "Red", "Magenta", "Brown", "LightGray"}

C2_BrightColors ==
    {"DarkGray", "LightBlue", "LightGreen", "LightCyan", "LightRed", "Pink", "Yellow",
     "White"}

\* When fetch returns, the report is followed by a blank line and two
\* rows of 8 swatches; a swatch is two characters whose foreground and
\* background are the same colour; the first row shows the 8 base colours,
\* the second the 8 bright ones, 16 different colours in all; each row is
\* followed by a line break written in White on Black, which is the colour
\* the writer is left with; and there is no other swatch.
C2_RowsAtReturn ==
    (fn = "fetch" /\ pc = "done") =>
        LET out == writer.out
            n   == Len(out)
        IN  /\ n > C2_TailLen
            /\ out[n - C2_TailLen][1] = 10
            /\ C2_Tail[1][1] = 10
            /\ \A r \in {1, 2} : \A k \in 1 .. 8 :
                  LET sw == C2_Swatch(r, k)
                  IN  /\ sw[1][2] = sw[1][3]
                      /\ sw[2] = sw[1]
                      /\ sw[1][1] = 32
            /\ C2_RowColors(1) = C2_BaseColors
            /\ C2_RowColors(2) = C2_BrightColors
            /\ Cardinality(C2_RowColors(1) \cup C2_RowColors(2)) = 16
            /\ C2_Tail[22] = C2_Default
            /\ C2_Tail[C2_TailLen] = C2_Default
            /\ Cardinality({k \in 1 .. n : out[k][2] = out[k][3]}) = 32
            /\ writer.fg = "White" /\ writer.bg = "Black"

\* a call that has returned, entered with the writer in another colour
C2_Returned ==
    /\ fn = "fetch" /\ pc = "done"
    /\ WriterBefore.fg # "White"
    /\ Len(writer.out) > C2_TailLen
    /\ writer.out[Len(writer.out) - 2] = <<32, "White", "White">>

\* C2: after the seven report lines fetch emits a blank line and exactly two
\* rows of 8 swatches, the 8 base colours and then the 8 bright ones, each
\* swatch two characters with foreground equal to background, each row
\* followed by a reset to White on Black and a line break, so that fetch
\* always returns with the writer in White on Black: a call that is over
\* has returned, and what it has written ends with those rows.  A call that
\* stops at the load of 0x413 is over without having returned, the writer
\* left in the colour it had.
C2_PaletteRows ==
    /\ Ended => (pc = "done" /\ writer.fg = "White" /\ writer.bg = "Black")
    /\ C2_RowsAtReturn

---------------------------------------------------------------------------
(* C3: the memory probe.                                                   *)

\* the text fetch has written ends with the bytes s
EndsWith(s) ==
    /\ Len(writer.out) >= Len(s)
    /\ SubSeq(Text(writer), Len(writer.out) - Len(s) + 1, Len(writer.out)) = s

\* In a call that goes past the load of 0x413 the memory size is the
\* low-memory word plus 131072 as a number, so the 32-bit sum has not
\* wrapped, and the Memory line shows that sum divided by 1024, remainder
\* dropped, followed by " MB".
C3_ValueLoaded ==
    /\ Past("memory") =>
          /\ memory_kb[1] < Half /\ memory_kb[2] < Half /\ memory_kb[1] < 32768
          /\ Val(memory_kb) = baseMem + 131072
          /\ memory_mb[1] = 0
          /\ memory_mb[2] * 1024 <= baseMem + 131072
          /\ baseMem + 131072 < (memory_mb[2] + 1) * 1024
    /\ (fn = "fetch" /\ pc = "line7") =>
          EndsWith(C1_Labels[6] \o Decimal((baseMem + 131072) \div 1024) \o <<32, 77, 66, 10>>)

\* the Memory line written for the largest low-memory word: 191 MB
C3_LargestWord ==
    /\ fn = "fetch" /\ pc = "line7"
    /\ baseMem = 65535
    /\ memory_mb = <<0, 191>>

\* C3: detect_memory_kb returns exactly the low-memory word plus 131072 for
\* every 16-bit word, without wrapping: every call of it returns, never
\* stopping at the load of the word, and what it returns is that sum; the
\* Memory line shows the sum divided by 1024, remainder dropped, followed
\* by " MB".
C3_Memory ==
    /\ ~Aborted
    /\ C3_ValueLoaded

---------------------------------------------------------------------------
(* C4: the uptime probe.                                                   *)

\* ticksRead - 18 * uptime, or -1 when it is not within one high half
C4_Remainder ==
    LET lo   == uptime[2] * 18
        prod == <<uptime[1] * 18 + lo \div Half, lo % Half>>
        dh   == ticksRead[1] - prod[1]
    IN  IF dh \in {0, 1} THEN dh * Half + ticksRead[2] - prod[2] ELSE -1

\* C4: a call loads the tick counter at most once, and exactly once before
\* it goes on; the uptime is the loaded value divided by 18, remainder
\* dropped; and the hours, minutes and seconds, once derived, add up to that
\* uptime, with minutes and seconds below 60, whatever the timer interrupt
\* does to the counter meanwhile.
C4_Uptime ==
    /\ fn = "fetch" => tickLoads <= 1
    /\ Past("uptime2") =>
          /\ tickLoads = 1
          /\ uptime[1] < Half /\ uptime[2] < Half
          /\ C4_Remainder >= 0 /\ C4_Remainder < 18
    /\ Past("derive") =>
          /\ hours[1] < Half /\ hours[1] < 32768 /\ minutes[1] = 0 /\ seconds[1] = 0
          /\ minutes[2] < 60 /\ seconds[2] < 60
          /\ Val(hours) * 3600 + minutes[2] * 60 + seconds[2] = Val(uptime)

\* a call that has returned after the counter moved on from the value it
\* loaded, with hours to show
C4_Witness ==
    /\ fn = "fetch" /\ pc = "done"
    /\ nIrq > 0 /\ ticks # ticksRead
    /\ hours # <<0, 0>>

---------------------------------------------------------------------------
(* C5, C6, C7: the formatting helpers, each called on its own.             *)

Returned(f) == fn = f /\ pc = "ret"

\* C5: write_number(n) writes digits only, at least one and at most ten,
\* with no leading zero unless it is the single digit of 0; the digits
\* denote n; and the index into the 10-byte buffer has stayed within it
\* (no out-of-bounds store), one buffer entry per digit written.
C5_WriteNumber ==
    Returned("write_number") =>
        LET d == Text(writer)
        IN  /\ Len(d) >= 1 /\ Len(d) <= 10
            /\ \A k \in 1 .. Len(d) : d[k] >= 48 /\ d[k] <= 57
            /\ (Len(d) > 1 => d[1] # 48)
            /\ DigitsValue(d) = arg[1]
            /\ (arg[1] = <<0, 0>> => d = <<48>>)
            /\ ~ret.panic
            /\ ret.i <= 10
            /\ (arg[1] # <<0, 0>> => ret.i = Len(d))

\* write_number(4294967295) has written its ten digits
C5_Witness ==
    /\ Returned("write_number")
    /\ arg[1] = <<65535, 65535>>
    /\ Text(writer) = <<52, 50, 57, 52, 57, 54, 55, 50, 57, 53>>
    /\ ret.i = 10

\* C6: write_uptime(h, m, s) writes the decimal h and "h " exactly when
\* h > 0, and then always the decimal m, "m ", the decimal s and "s".
C6_WriteUptime ==
    Returned("write_uptime") =>
        LET h == Val(arg[1])
            m == Val(arg[2])
            s == Val(arg[3])
        IN  Text(writer) =
                (IF h > 0 THEN Decimal(h) \o <<104, 32>> ELSE <<>>)
                    \o Decimal(m) \o <<109, 32>> \o Decimal(s) \o <<115>>

\* write_uptime(0, 0, 0) has written "0m 0s"
C6_Witness ==
    /\ Returned("write_uptime")
    /\ arg = <<<<0, 0>>, <<0, 0>>, <<0, 0>>>>
    /\ Text(writer) = <<48, 109, 32, 48, 115>>

\* C7: write_truncated(s, limit) writes the first min(length of s, limit)
\* bytes of s, in order, and nothing else; so never more than limit bytes,
\* and never more than 25 for the limit fetch passes.
C7_WriteTruncated ==
    Returned("write_truncated") =>
        LET s     == arg[1]
            limit == arg[2]
        IN  /\ Text(writer) = SubSeq(s, 1, Min(Len(s), limit))
            /\ Len(writer.out) <= limit
            /\ (Len(s) <= limit => Text(writer) = s)

\* a string longer than 25 bytes has been cut to its first 25
C7_Witness ==
    /\ Returned("write_truncated")
    /\ arg[2] = 25 /\ Len(arg[1]) > 25
    /\ Len(writer.out) = 25

---------------------------------------------------------------------------
(* C8, C9: CpuInfo.                                                        *)

\* the four bytes of buf from offset off (counted from 0), as a register
C8_Reg(buf, off) == from_le_bytes(SubSeq(buf, off + 1, off + 4))

\* C8: after detect, the vendor is ebx, edx, ecx of selector 0, each as 4
\* little-endian bytes; has_brand is true exactly when eax of selector
\* 0x80000000 is at least 0x80000004; and the brand is 48 zero bytes without
\* brand support, and with it the registers eax, ebx, ecx, edx of selectors
\* 0x80000002 + i at offset 16 * i, each as 4 little-endian bytes.
C8_Detect ==
    Past("detect") =>
        LET max_ext == hw[<<32768, 0>>][1]
        IN  /\ Len(cpu.vendor) = 12 /\ Len(cpu.brand) = 48
            /\ \A k \in 1 .. 12 : cpu.vendor[k] \in 0 .. 255
            /\ \A k \in 1 .. 48 : cpu.brand[k] \in 0 .. 255
            /\ C8_Reg(cpu.vendor, 0) = hw[<<0, 0>>][2]
            /\ C8_Reg(cpu.vendor, 4) = hw[<<0, 0>>][4]
            /\ C8_Reg(cpu.vendor, 8) = hw[<<0, 0>>][3]
            /\ cpu.has_brand <=>
                  (max_ext[1] > 32768 \/ (max_ext[1] = 32768 /\ max_ext[2] >= 4))
            /\ (~cpu.has_brand => \A k \in 1 .. 48 : cpu.brand[k] = 0)
            /\ (cpu.has_brand =>
                  \A n \in 0 .. 2 : \A r \in 1 .. 4 :
                      C8_Reg(cpu.brand, 16 * n + 4 * (r - 1)) = hw[<<32768, 2 + n>>][r])

\* detect has filled the brand of a processor that reports exactly 0x80000004
C8_Witness ==
    /\ Past("detect")
    /\ hw[<<32768, 0>>][1] = <<32768, 4>>
    /\ cpu.has_brand
    /\ cpu.brand[1] # 0 /\ cpu.vendor[1] # 0

\* C9: without brand support brand_str is vendor_str; vendor_str is the 12
\* vendor bytes when they are text and "Unknown" otherwise; with brand
\* support brand_str is "Unknown" when the 48 brand bytes are not text and
\* otherwise those bytes without leading and trailing NULs and spaces.
C9_Strings ==
    Past("detect") =>
        /\ (~cpu.has_brand => brand_str(cpu) = vendor_str(cpu))
        /\ vendor_str(cpu) = (IF IsText(cpu.vendor) THEN cpu.vendor ELSE S_Unknown)
        /\ (cpu.has_brand =>
              brand_str(cpu) = (IF IsText(cpu.brand) THEN Trimmed(cpu.brand) ELSE S_Unknown))

\* a brand that is text with NUL padding, shown without it
C9_Witness ==
    /\ Past("detect")
    /\ cpu.has_brand /\ IsText(cpu.brand)
    /\ cpu.brand[48] = 0
    /\ Len(brand_str(cpu)) = 24

---------------------------------------------------------------------------
(* C10: the art fragments.                                                 *)

\* the j-th smallest member of a set of numbers
Nth(S, j) == CHOOSE x \in S : Cardinality({y \in S : y < x}) = j - 1

\* the fragments of what fetch has written: the runs of cells in the art's
\* colours (LightCyan on Black), in order, and where each starts
Fragments ==
    LET out    == writer.out
        art    == {k \in 1 .. Len(out) : out[k][2] = "LightCyan" /\ out[k][3] = "Black"}
        starts == {k \in art : (k - 1) \notin art}
        ends   == {k \in art : (k + 1) \notin art}
    IN  [j \in 1 .. Cardinality(starts) |->
            [at   |-> Nth(starts, j),
             text |-> [k \in 1 .. Nth(ends, j) - Nth(starts, j) + 1 |->
                          out[Nth(starts, j) + k - 1][1]]]]

IsBlank(s) == \A k \in 1 .. Len(s) : s[k] = 32

\* what the fragments f have in common: seven of them, the first at the
\* start of the output and the others right after a line break, all of one
\* width
C10_SevenFragments(f) ==
    /\ Len(f) = 7
    /\ \A k \in 1 .. 7 : Len(f[k].text) = Len(f[1].text)
    /\ \A k \in 1 .. 7 : f[k].at = 1 \/ writer.out[f[k].at - 1][1] = 10

\* C10 as stated: six fragments are art and only the seventh is blank.
C10_SixArtLines ==
    (fn = "fetch" /\ pc = "done") =>
        LET f == Fragments
        IN  /\ C10_SevenFragments(f)
            /\ \A k \in 1 .. 6 : ~IsBlank(f[k].text)
            /\ IsBlank(f[7].text)

\* C10, amended: five fragments are art, and the sixth and the seventh are
\* both blank padding of the same width.
C10_FiveArtLines ==
    (fn = "fetch" /\ pc = "done") =>
        LET f == Fragments
        IN  /\ C10_SevenFragments(f)
            /\ \A k \in 1 .. 5 : ~IsBlank(f[k].text)
            /\ IsBlank(f[6].text) /\ IsBlank(f[7].text)

\* a finished report whose seven fragments are 33 wide
C10_Witness ==
    /\ fn = "fetch" /\ pc = "done"
    /\ LET f == Fragments
       IN  Len(f) = 7 /\ Len(f[6].text) = 33 /\ IsBlank(f[6].text)

=============================================================================
